---------------------------- MODULE Spec2Model ----------------------------
(***************************************************************************)
(* Model of std/src/derive.rs of bp-std: terminal derivation paths,        *)
(* the Derive capability with its batch loop, address derivation on top    *)
(* of script-pubkey derivation, and the ordering of derived addresses.     *)
(***************************************************************************)
EXTENDS Integers, Sequences, FiniteSets, TLC

VARIABLES
    pc,          \* "idle", "loop" (inside derive_batch), "collect", "done"
    op,          \* the operation in progress or just returned
    deriver,     \* &self of the Derive implementation
    network,     \* AddressNetwork argument
    keychain,    \* keychain argument (after .into())
    from,        \* the `from` argument of the running batch call
    max_count,   \* the `max_count: u8` argument
    index,       \* `let mut index` of derive_batch
    count,       \* `let mut count = 0u8` of derive_batch
    batch,       \* `let mut batch` of derive_batch
    overflowed,  \* whether `count += 1` has overflowed the u8
    input,       \* the argument(s) of from_str / cmp
    result       \* the returned value

vars == <<pc, op, deriver, network, keychain, from, max_count, index, count,
          batch, overflowed, input, result>>

----------------------------------------------------------------------------
(* Bounds of the model *)

\* Start indices and counts are taken within Span of 0 and of the upper end.
Span == 3
\* Longest path, in components, handed to the parser.
MaxComponents == 4

----------------------------------------------------------------------------
(* NormalIndex *)

\* The largest unhardened index, 2^31 - 1.
NormalMax == 2147483647

\* The largest u8.
U8Max == 255

\* Idx::checked_inc_assign on a NormalIndex: the index moves to its successor
\* and the new value is returned, or, at the upper bound, the index is left
\* alone and None is returned.  Nothing wraps.
checked_inc_assign(idx) ==
    IF idx >= NormalMax
      THEN [self |-> idx, is_none |-> TRUE]
      ELSE [self |-> idx + 1, is_none |-> FALSE]

----------------------------------------------------------------------------
(* Text: a string is a sequence of one-character strings *)

Digits == <<"0", "1", "2", "3", "4", "5", "6", "7", "8", "9">>

IsDigit(c) == \E d \in 1 .. 10 : Digits[d] = c

DigitValue(c) == (CHOOSE d \in 1 .. 10 : Digits[d] = c) - 1

\* Display of a NormalIndex: the decimal digits of its value.
RECURSIVE NormalIndex_fmt(_)
NormalIndex_fmt(n) ==
    IF n < 10 THEN <<Digits[n + 1]>>
    ELSE Append(NormalIndex_fmt(n \div 10), Digits[(n % 10) + 1])

\* The decimal value of a run of digits, read left to right with a checked
\* multiply-and-add; -1 when the value leaves the unhardened range.
RECURSIVE DecimalFrom(_, _, _)
DecimalFrom(seg, pos, acc) ==
    IF pos > Len(seg) THEN acc
    ELSE LET d == DigitValue(seg[pos])
         IN IF acc > (NormalMax - d) \div 10 THEN -1
            ELSE DecimalFrom(seg, pos + 1, acc * 10 + d)

\* NormalIndex::from_str on one path component.
NormalIndex_from_str(seg) ==
    IF seg = <<>> \/ \E i \in 1 .. Len(seg) : ~IsDigit(seg[i])
      THEN [ok |-> FALSE, err |-> "InvalidFormat"]
      ELSE LET v == DecimalFrom(seg, 1, 0)
           IN IF v < 0 THEN [ok |-> FALSE, err |-> "IndexOutOfRange"]
              ELSE [ok |-> TRUE, val |-> v]

\* The components of a path text: the runs between the "/" that open them.
RECURSIVE SplitFrom(_, _, _, _)
SplitFrom(s, pos, cur, acc) ==
    IF pos > Len(s) THEN Append(acc, cur)
    ELSE IF s[pos] = "/" THEN SplitFrom(s, pos + 1, <<>>, Append(acc, cur))
         ELSE SplitFrom(s, pos + 1, Append(cur, s[pos]), acc)

RECURSIVE ParseAll(_, _, _)
ParseAll(segs, pos, acc) ==
    IF pos > Len(segs) THEN [ok |-> TRUE, val |-> acc]
    ELSE LET r == NormalIndex_from_str(segs[pos])
         IN IF r.ok THEN ParseAll(segs, pos + 1, Append(acc, r.val))
            ELSE [ok |-> FALSE, err |-> r.err]

\* DerivationPath::<NormalIndex>::from_str: the empty text is the empty path;
\* otherwise every component is "/" followed by a decimal unhardened index.
DerivationPath_from_str(s) ==
    IF s = <<>> THEN [ok |-> TRUE, val |-> <<>>]
    ELSE IF s[1] /= "/" THEN [ok |-> FALSE, err |-> [path |-> s, cause |-> "InvalidFormat"]]
    ELSE LET r == ParseAll(SplitFrom(s, 2, <<>>, <<>>), 1, <<>>)
         IN IF r.ok THEN r
            ELSE [ok |-> FALSE, err |-> [path |-> s, cause |-> r.err]]

----------------------------------------------------------------------------
(* Terminal *)

\* Terminal::new
Terminal_new(kc, idx) == [keychain |-> kc, index |-> idx]

\* Iterator::next on path.iter(), the n-th call.
IterNext(path, n) ==
    IF n <= Len(path) THEN [some |-> TRUE, val |-> path[n]] ELSE [some |-> FALSE]

\* Variant of the match that does not look at the third component.
MatchTerminal_AtLeastTwo(s, k, i, third) ==
    IF k.some /\ i.some
      THEN [ok |-> TRUE, val |-> [keychain |-> k.val, index |-> i.val]]
      ELSE [ok |-> FALSE, err |-> [variant |-> "InvalidComponents", text |-> s]]

\* The match of from_str, lines 63-66.
MatchTerminal(s, k, i, third) ==
    IF k.some /\ i.some /\ ~third.some
      THEN [ok |-> TRUE, val |-> Terminal_new(k.val, i.val)]
      ELSE [ok |-> FALSE, err |-> [variant |-> "InvalidComponents", text |-> s]]

\* <Terminal as FromStr>::from_str
Terminal_from_str(s) ==
    LET path == DerivationPath_from_str(s)
    IN IF ~path.ok
         THEN [ok |-> FALSE, err |-> [variant |-> "DerivationPath", inner |-> path.err]]
         ELSE MatchTerminal(s, IterNext(path.val, 1), IterNext(path.val, 2),
                            IterNext(path.val, 3))

\* Variant of the display without the opening "/".
Terminal_fmt_NoLead(t) ==
    NormalIndex_fmt(t.keychain) \o <<"/">> \o NormalIndex_fmt(t.index)

\* Display of Terminal, #[display("/{keychain}/{index}")].
Terminal_fmt(t) ==
    <<"/">> \o NormalIndex_fmt(t.keychain) \o <<"/">> \o NormalIndex_fmt(t.index)

\* Ord of u32, the content of a NormalIndex.
NormalIndex_cmp(a, b) ==
    IF a < b THEN "Less" ELSE IF a > b THEN "Greater" ELSE "Equal"

\* #[derive(Ord)] of Terminal: fields in declaration order.
Terminal_cmp(a, b) ==
    LET k == NormalIndex_cmp(a.keychain, b.keychain)
    IN IF k /= "Equal" THEN k ELSE NormalIndex_cmp(a.index, b.index)

----------------------------------------------------------------------------
(* DerivedAddr *)

\* DerivedAddr::new
DerivedAddr_new(addr, kc, idx) == [addr |-> addr, terminal |-> Terminal_new(kc, idx)]

\* Variant of the ordering that compares the address index alone.
DerivedAddr_cmp_IndexOnly(a, b) == NormalIndex_cmp(a.terminal.index, b.terminal.index)

\* impl Ord for DerivedAddr
DerivedAddr_cmp(a, b) == Terminal_cmp(a.terminal, b.terminal)

\* impl PartialOrd for DerivedAddr
DerivedAddr_partial_cmp(a, b) == [some |-> TRUE, val |-> DerivedAddr_cmp(a, b)]

\* a < b, which Rust reads off partial_cmp
DerivedAddr_lt(a, b) ==
    LET o == DerivedAddr_partial_cmp(a, b) IN o.some /\ o.val = "Less"

\* #[derive(PartialEq)] of DerivedAddr: both fields
DerivedAddr_eq(a, b) == a.addr = b.addr /\ a.terminal = b.terminal

----------------------------------------------------------------------------
(* Derive *)

Derivers == {"wpkh", "mixed"}
Networks == {"Mainnet", "Testnet"}
Keychains == {0, 1}

\* The kind of script a deriver yields at a terminal.  "wpkh" yields
\* witness-pubkey-hash scripts everywhere; "mixed" stands for an arbitrary
\* implementation of Derive<ScriptPubkey> whose scripts are not all
\* representable as addresses.
ScriptKind(d, kc, idx) ==
    IF d = "wpkh" THEN "p2wpkh"
    ELSE CASE idx % 4 = 2 -> "op_return"
           [] idx % 4 = 3 -> "bare_multisig"
           [] OTHER       -> "p2wpkh"

\* Derive::derive: a pure function of the deriver and the two indices.
derive(d, kc, idx) ==
    [deriver |-> d, keychain |-> kc, index |-> idx, kind |-> ScriptKind(d, kc, idx)]

\* Variants of the loop condition: `>` for `>=`, `==` for `>=`, and one that
\* drops the test of the checked increment.
ShouldReturn_Gt(inc, cnt, max) == inc.is_none \/ cnt > max

ShouldReturn_Eq(inc, cnt, max) == inc.is_none \/ cnt = max

ShouldReturn_NoBound(inc, cnt, max) == cnt >= max

\* The loop condition of derive_batch, line 109.
ShouldReturn(inc, cnt, max) == inc.is_none \/ cnt >= max

\* `count += 1` on a u8.
CountInc(cnt) == (cnt + 1) % (U8Max + 1)

----------------------------------------------------------------------------
(* DeriveSpk *)

\* Address::with(&spk, network): fallible on the script kind.
AddressWith(spk, net) ==
    IF spk.kind = "p2wpkh"
      THEN [ok |-> TRUE, val |-> [payload |-> <<spk.deriver, spk.keychain, spk.index>>,
                                  network |-> net]]
      ELSE [ok |-> FALSE, err |-> [unsupported |-> spk.kind, spk |-> spk]]

\* DeriveSpk::derive_address
derive_address(d, net, kc, idx) == AddressWith(derive(d, kc, idx), net)

\* Iterator::collect::<Result<Vec<_>, _>>() over the mapped iterator: items are
\* taken in order, the first Err ends the iteration and is the result.
RECURSIVE CollectFrom(_, _, _, _)
CollectFrom(spks, net, pos, acc) ==
    IF pos > Len(spks) THEN [ok |-> TRUE, val |-> acc]
    ELSE LET r == AddressWith(spks[pos], net)
         IN IF r.ok THEN CollectFrom(spks, net, pos + 1, Append(acc, r.val))
            ELSE [ok |-> FALSE, err |-> r.err]

\* Variants of the collection: one that drops the elements that fail to
\* encode, one that reports the last failure instead of the first.
RECURSIVE KeepOk(_, _, _, _)
KeepOk(spks, net, pos, acc) ==
    IF pos > Len(spks) THEN acc
    ELSE LET r == AddressWith(spks[pos], net)
         IN KeepOk(spks, net, pos + 1, IF r.ok THEN Append(acc, r.val) ELSE acc)

MapCollect_SkipErr(spks, net) == [ok |-> TRUE, val |-> KeepOk(spks, net, 1, <<>>)]

MapCollect_LastErr(spks, net) ==
    LET bad == {i \in 1 .. Len(spks) : ~AddressWith(spks[i], net).ok}
    IN IF bad = {} THEN CollectFrom(spks, net, 1, <<>>)
       ELSE AddressWith(spks[CHOOSE i \in bad : \A j \in bad : j <= i], net)

MapCollect(spks, net) == CollectFrom(spks, net, 1, <<>>)

----------------------------------------------------------------------------
(* Inputs *)

Froms == (0 .. Span) \cup {5}
         \cup {NormalMax - k : k \in 0 .. Span}
         \cup {NormalMax - U8Max + 1, NormalMax - U8Max + 2}

MaxCounts == (0 .. Span) \cup {U8Max - 1, U8Max}

\* The texts of single path components handed to the parser.
MaxText == <<"2", "1", "4", "7", "4", "8", "3", "6", "4", "7">>
OverText == <<"2", "1", "4", "7", "4", "8", "3", "6", "4", "8">>
ComponentTexts ==
    { <<"0">>, <<"7">>, <<"0", "7">>, MaxText, OverText,
      <<"1", "h">>, <<"x">>, <<>> }

RECURSIVE Join(_, _)
Join(comps, pos) ==
    IF pos > Len(comps) THEN <<>>
    ELSE <<"/">> \o comps[pos] \o Join(comps, pos + 1)

\* Path texts of up to MaxComponents components, and the two-component ones
\* with the opening "/" left out.
PathTexts ==
    LET joined == UNION { { Join(cs, 1) : cs \in [1 .. n -> ComponentTexts] }
                          : n \in 0 .. MaxComponents }
    IN joined \cup { Tail(Join(cs, 1)) : cs \in [1 .. 2 -> ComponentTexts] }

Addresses ==
    { derive_address("wpkh", net, 0, 0).val : net \in Networks }
    \cup { derive_address("mixed", "Mainnet", 1, 1).val }

DerivedAddrs ==
    { DerivedAddr_new(a, kc, idx) :
        a \in Addresses, kc \in Keychains, idx \in {0, 1, NormalMax} }

----------------------------------------------------------------------------
(* Actions *)

Init ==
    /\ pc = "idle"
    /\ op = "none"
    /\ deriver = "wpkh"
    /\ network = "Mainnet"
    /\ keychain = 0
    /\ from = 0
    /\ max_count = 0
    /\ index = 0
    /\ count = 0
    /\ batch = <<>>
    /\ overflowed = FALSE
    /\ input = <<>>
    /\ result = <<>>

\* Entry of derive_batch, lines 102-105.
EnterBatch(o, d, net, kc, f, mc) ==
    /\ pc = "idle"
    /\ pc' = "loop"
    /\ op' = o
    /\ deriver' = d
    /\ network' = net
    /\ keychain' = kc
    /\ from' = f
    /\ max_count' = mc
    /\ index' = f
    /\ count' = 0
    /\ batch' = <<>>
    /\ overflowed' = FALSE
    /\ UNCHANGED <<input, result>>

CallDeriveBatch ==
    \E d \in Derivers, kc \in Keychains, f \in Froms, mc \in MaxCounts :
        EnterBatch("derive_batch", d, "Mainnet", kc, f, mc)

CallDeriveAddressBatch ==
    \E d \in Derivers, net \in Networks, kc \in Keychains, f \in Froms, mc \in MaxCounts :
        EnterBatch("derive_address_batch", d, net, kc, f, mc)

\* One iteration of the loop of derive_batch, lines 106-112.
LoopIter ==
    /\ pc = "loop"
    /\ LET pushed == Append(batch, derive(deriver, keychain, index))
           cnt    == CountInc(count)
           inc    == checked_inc_assign(index)
       IN /\ batch' = pushed
          /\ count' = cnt
          /\ overflowed' = (overflowed \/ count = U8Max)
          /\ index' = inc.self
          /\ IF ShouldReturn(inc, cnt, max_count)
               THEN IF op = "derive_batch"
                      THEN pc' = "done" /\ result' = pushed
                      ELSE pc' = "collect" /\ UNCHANGED result
               ELSE pc' = "loop" /\ UNCHANGED result
    /\ UNCHANGED <<op, deriver, network, keychain, from, max_count, input>>

\* The rest of derive_address_batch, lines 141-143.
Collect ==
    /\ pc = "collect"
    /\ pc' = "done"
    /\ result' = MapCollect(batch, network)
    /\ UNCHANGED <<op, deriver, network, keychain, from, max_count, index, count,
                   batch, overflowed, input>>

\* A call of Terminal::from_str.
FromStr ==
    /\ pc = "idle"
    /\ \E s \in PathTexts :
          /\ input' = s
          /\ result' = Terminal_from_str(s)
    /\ pc' = "done"
    /\ op' = "from_str"
    /\ UNCHANGED <<deriver, network, keychain, from, max_count, index, count,
                   batch, overflowed>>

\* The parsed terminal is written back with to_string().
Terminal_to_string ==
    /\ pc = "done"
    /\ op = "from_str"
    /\ result.ok
    /\ op' = "to_string"
    /\ result' = [terminal |-> result.val, text |-> Terminal_fmt(result.val)]
    /\ UNCHANGED <<pc, deriver, network, keychain, from, max_count, index, count,
                   batch, overflowed, input>>

\* Two derived addresses are compared: cmp, < and ==.
Compare ==
    /\ pc = "idle"
    /\ \E a \in DerivedAddrs, b \in DerivedAddrs :
          /\ input' = <<a, b>>
          /\ result' = [cmp |-> DerivedAddr_cmp(a, b),
                        lt  |-> DerivedAddr_lt(a, b),
                        eq  |-> DerivedAddr_eq(a, b)]
    /\ pc' = "done"
    /\ op' = "cmp"
    /\ UNCHANGED <<deriver, network, keychain, from, max_count, index, count,
                   batch, overflowed>>

\* The caller takes the result; the next call starts afresh.
Return ==
    /\ pc = "done"
    /\ pc' = "idle"
    /\ op' = "none"
    /\ deriver' = "wpkh"
    /\ network' = "Mainnet"
    /\ keychain' = 0
    /\ from' = 0
    /\ max_count' = 0
    /\ index' = 0
    /\ count' = 0
    /\ batch' = <<>>
    /\ overflowed' = FALSE
    /\ input' = <<>>
    /\ result' = <<>>

Next ==
    \/ CallDeriveBatch
    \/ CallDeriveAddressBatch
    \/ LoopIter
    \/ Collect
    \/ FromStr
    \/ Terminal_to_string
    \/ Compare
    \/ Return

Spec == Init /\ [][Next]_vars

----------------------------------------------------------------------------
(* Properties *)

Returned(o) == pc = "done" /\ op = o

InBatch == op \in {"derive_batch", "derive_address_batch"}

\* The derived values at n consecutive indices from f on.
Consecutive(d, kc, f, n) == [i \in 1 .. n |-> derive(d, kc, f + (i - 1))]

\* min(max(max_count, 1), 2^31 - from), written without leaving 31 bits.
BatchLen(f, mc) ==
    LET want == IF mc >= 1 THEN mc ELSE 1
    IN IF NormalMax - f >= want - 1 THEN want ELSE (NormalMax - f) + 1

\* C1 as stated: whenever from + n - 1 is an unhardened index, derive_batch
\* returns n elements, the i-th being derive(keychain, from + i).
C1_AnyCount ==
    (Returned("derive_batch") /\ (from >= 1 \/ max_count >= 1)
        /\ max_count - 1 <= NormalMax - from)
    => (Len(result) = max_count
        /\ result = Consecutive(deriver, keychain, from, max_count))

\* C1 amended: for n >= 1 with from + n - 1 an unhardened index, derive_batch
\* returns n elements, the i-th (0-based) being derive(keychain, from + i).
C1_PositiveCount ==
    (Returned("derive_batch") /\ max_count >= 1
        /\ max_count - 1 <= NormalMax - from)
    => (Len(result) = max_count
        /\ result = Consecutive(deriver, keychain, from, max_count))

C1_Witness ==
    /\ Returned("derive_batch")
    /\ from = 5 /\ max_count = 3 /\ keychain = 0
    /\ result = <<derive(deriver, 0, 5), derive(deriver, 0, 6), derive(deriver, 0, 7)>>

\* C2: derive_batch(keychain, from, 0) returns exactly one element,
\* derive(keychain, from).
C2_ZeroCountYieldsOne ==
    (Returned("derive_batch") /\ max_count = 0)
    => result = <<derive(deriver, keychain, from)>>

C2_Witness ==
    /\ Returned("derive_batch")
    /\ max_count = 0 /\ from = 1
    /\ Len(result) = 1

\* C3: from the maximum unhardened index, derive_batch with max_count >= 1
\* returns exactly one element, derived at that index, and the index has
\* neither wrapped nor left the unhardened range.
C3_OneAtUpperBound ==
    (Returned("derive_batch") /\ from = NormalMax /\ max_count >= 1)
    => (result = <<derive(deriver, keychain, NormalMax)>> /\ index = NormalMax)

C3_Witness ==
    /\ Returned("derive_batch")
    /\ from = NormalMax /\ max_count = U8Max
    /\ Len(result) = 1

\* C4: Terminal::from_str returns the path parser's error, wrapped, when the
\* parser rejects the text; otherwise the terminal of the two components when
\* there are exactly two; otherwise InvalidComponents with the text.
C4_FromStrOutcomes ==
    Returned("from_str") =>
        LET path == DerivationPath_from_str(input)
        IN /\ ~path.ok =>
                result = [ok |-> FALSE,
                          err |-> [variant |-> "DerivationPath", inner |-> path.err]]
           /\ (path.ok /\ Len(path.val) = 2) =>
                result = [ok |-> TRUE,
                          val |-> [keychain |-> path.val[1], index |-> path.val[2]]]
           /\ (path.ok /\ Len(path.val) /= 2) =>
                result = [ok |-> FALSE,
                          err |-> [variant |-> "InvalidComponents", text |-> input]]

C4_Witness ==
    /\ Returned("from_str")
    /\ input = <<"/", "0", "/", "7", "/", "0">>
    /\ ~result.ok
    /\ result.err.variant = "InvalidComponents"

\* A terminal text in canonical form: an opening "/" and no component with a
\* zero before further digits.
IsCanonicalText(s) ==
    /\ Len(s) > 0
    /\ s[1] = "/"
    /\ \A i \in 2 .. Len(s) :
          (s[i] = "0" /\ s[i - 1] = "/") => (i = Len(s) \/ s[i + 1] = "/")

C6_BatchIsMappedDeriveAddress ==
    (Returned("derive_address_batch") /\ result.ok) =>
        /\ Len(result.val) = BatchLen(from, max_count)
        /\ \A i \in 1 .. Len(result.val) :
              LET one == derive_address(deriver, network, keychain, from + (i - 1))
              IN one.ok /\ result.val[i] = one.val

C6_Witness ==
    /\ Returned("derive_address_batch")
    /\ deriver = "wpkh" /\ from = NormalMax - 1 /\ max_count = U8Max
    /\ network = "Testnet"
    /\ result.ok
    /\ Len(result.val) = 2

\* C7: derive_address_batch returns Ok exactly when every element encodes, and
\* then one address per element; otherwise it returns the error of the
\* failing element of lowest index and no addresses.
C7_AllOrNothing ==
    Returned("derive_address_batch") =>
        LET bad == {i \in 1 .. Len(batch) : ~AddressWith(batch[i], network).ok}
        IN IF bad = {}
             THEN /\ result.ok
                  /\ Len(result.val) = Len(batch)
                  /\ \A i \in 1 .. Len(batch) :
                        AddressWith(batch[i], network) = [ok |-> TRUE, val |-> result.val[i]]
             ELSE /\ ~result.ok
                  /\ DOMAIN result = {"ok", "err"}
                  /\ \E i \in bad :
                        /\ \A j \in bad : i <= j
                        /\ result.err = AddressWith(batch[i], network).err

C7_Witness ==
    /\ Returned("derive_address_batch")
    /\ deriver = "mixed" /\ from = 0 /\ max_count = U8Max
    /\ ~result.ok
    /\ result.err.spk.index = 2

\* The order of terminals: by keychain, then by index.
TerminalLess(a, b) ==
    a.keychain < b.keychain \/ (a.keychain = b.keychain /\ a.index < b.index)

\* C8: DerivedAddr values are ordered as their terminals are, by keychain and
\* then index, whatever the addresses; with equal terminals and different
\* addresses they compare Equal and are not ==.
C8_OrderedByTerminal ==
    Returned("cmp") =>
        LET a == input[1]
            b == input[2]
        IN /\ TerminalLess(a.terminal, b.terminal) <=> result.cmp = "Less"
           /\ TerminalLess(b.terminal, a.terminal) <=> result.cmp = "Greater"
           /\ a.terminal = b.terminal <=> result.cmp = "Equal"
           /\ result.lt <=> TerminalLess(a.terminal, b.terminal)
           /\ (a.terminal = b.terminal /\ a.addr /= b.addr) =>
                (result.cmp = "Equal" /\ ~result.eq)

C8_Witness ==
    /\ Returned("cmp")
    /\ input[1].terminal = [keychain |-> 0, index |-> NormalMax]
    /\ input[2].terminal = [keychain |-> 1, index |-> 0]
    /\ input[1].addr /= input[2].addr
    /\ result.lt

\* C9: derive_batch ends with min(max(max_count, 1), 2^31 - from) elements and
\* never holds more; while it runs it holds fewer, so it ends; every element
\* was derived with the caller's keychain at an index in [from, 2^31 - 1].
C9_TruncatedAtUpperBound ==
    InBatch =>
        /\ pc = "loop" => Len(batch) < BatchLen(from, max_count)
        /\ pc /= "loop" => Len(batch) = BatchLen(from, max_count)
        /\ \A i \in 1 .. Len(batch) :
              /\ batch[i].keychain = keychain
              /\ batch[i].index >= from
              /\ batch[i].index <= NormalMax
        /\ Returned("derive_batch") => result = batch

C9_Witness ==
    /\ Returned("derive_batch")
    /\ from = NormalMax - 2 /\ max_count = U8Max
    /\ Len(result) = 3
    /\ result[3].index = NormalMax

\* C10: in derive_batch the u8 count never overflows and always equals the
\* number of elements pushed.
C10_CountNeverOverflows ==
    InBatch =>
        /\ ~overflowed
        /\ count <= U8Max
        /\ count = Len(batch)

C10_Witness ==
    /\ Returned("derive_batch")
    /\ max_count = U8Max
    /\ count = U8Max
    /\ Len(batch) = U8Max

=============================================================================
